---- MODULE Spec2Model ----
(***************************************************************************)
(* A model of pyecsca's formula engine (pyecsca/ec/formula.py) and of the  *)
(* oscilloscope backend selector (pyecsca/sca/scope/__init__.py).          *)
(*                                                                         *)
(* Spec      : a caller executes one formula NumRuns times in a row with   *)
(*             the same field, points and curve parameters; the ambient    *)
(*             tracing context of each run is null or active.              *)
(* ScopeSpec : the initialization of the pyecsca.sca.scope module, line by *)
(*             line, for every set of installed optional packages.         *)
(***************************************************************************)
EXTENDS Integers, Sequences, FiniteSets, TLC

VARIABLES
    formula,     \* the Formula object: parameters, assumptions, code, arity
    field,       \* __call__ argument: the field modulus
    points,      \* __call__ argument: the input points
    kwargs,      \* __call__ argument: the named curve parameters
    policy,      \* getconfig().ec.unsatisfied_formula_assumption_action
    rootOrder,   \* the order in which this build's ground_roots() lists roots
    ctx,         \* getcontext() during the current run: "Null" or "Active"
    pc,          \* position of the current __call__
    params,      \* the working parameter map of the current __call__
    ai,          \* index of the assumption being resolved
    opi,         \* number of operations of the code evaluated in this call
    oi,          \* number of output points assembled in this call
    action,      \* the FormulaAction of the current call
    result,      \* the list `result` of __call__
    warned,      \* the warnings issued by the assumption policy in this call
    log,         \* the steps of the current call, in the order they ran
    outcome,     \* how the current call ended
    results,     \* the outcomes of the finished calls, one per run
    ctxs,        \* the tracing context of each finished call
    spc,         \* scope module: position of its initialization
    installed,   \* scope module: the optional packages that are importable
    has,         \* scope module: has_picoscope, has_picosdk, has_chipwhisperer
    PicoScope,   \* scope module: what the name PicoScope is bound to
    exported     \* scope module: adapter modules star-imported into it

vars == <<formula, field, points, kwargs, policy, rootOrder, ctx, pc, params, ai, opi, oi,
          action, result, warned, log, outcome, results, ctxs,
          spc, installed, has, PicoScope, exported>>

callVars  == <<formula, field, points, kwargs, policy, rootOrder>>
engineVars == <<formula, field, points, kwargs, policy, rootOrder, ctx, pc, params, ai, opi, oi,
                action, result, warned, log, outcome, results, ctxs>>
scopeVars == <<spc, installed, has, PicoScope, exported>>

(***************************************************************************)
(* Bounds.                                                                 *)
(***************************************************************************)
NumRuns == 2

(***************************************************************************)
(* Field elements (ec/mod.py, Mod) and the other values a caller can pass. *)
(***************************************************************************)
Fields == {3, 5}

Mod(x, n) == [kind |-> "Mod", x |-> x % n, n |-> n]
RawInt(x) == [kind |-> "int", x |-> x, n |-> 0]
Float     == [kind |-> "float", x |-> 0, n |-> 0]

\* A validation that forgets to compare the modulus with the field.
IsFieldElementAnyModulus(value, p) == value.kind = "Mod"

\* isinstance(value, Mod) and value.n == field
IsFieldElement(value, p) == value.kind = "Mod" /\ value.n = p

OtherField(p) == CHOOSE q \in Fields : q # p

Inverse(x, n) ==
    IF \E y \in 0..(n - 1) : (x * y) % n = 1
    THEN CHOOSE y \in 0..(n - 1) : (x * y) % n = 1
    ELSE 0

\* Mod <operator> Mod, an int operand being coerced to the Mod's modulus.
Arith(operator, l, r, n) ==
    CASE operator = "add" -> Mod(l + r, n)
      [] operator = "sub" -> Mod(l - r, n)
      [] operator = "mul" -> Mod(l * r, n)
      [] operator = "div" -> Mod(l * Inverse(r % n, n), n)
      [] operator = "sqr" -> Mod(l * l, n)
      [] OTHER            -> Mod(l, n)

(***************************************************************************)
(* Coordinate model and points (ec/point.py).                              *)
(***************************************************************************)
Variables == <<"X", "Z">>

Point(model, coords) == [coordinate_model |-> model, coords |-> coords]

GoodPoints(p) ==
    { Point("xz", [X |-> Mod(2, p), Z |-> Mod(1, p)]),
      Point("xz", [X |-> Mod(1, p), Z |-> Mod(2, p)]) }

BadPoints(p) ==
    { Point("affine", [X |-> Mod(1, p), Y |-> Mod(1, p)]),
      Point("xz", [X |-> Mod(1, OtherField(p)), Z |-> Mod(1, p)]),
      Point("xz", [X |-> Mod(1, p), Z |-> RawInt(1)]) }

\* The point lists a caller passes: arity - 1, arity or arity + 1 points, at
\* most one of them a bad one.
PointLists(p, n) ==
    { s \in UNION { [1..len -> GoodPoints(p) \cup BadPoints(p)]
                    : len \in {n - 1, n, n + 1} \cap Nat }
        : Cardinality({ i \in DOMAIN s : s[i] \in BadPoints(p) }) <= 1 }

\* The named curve parameters a caller passes.
KwargsChoices(p) ==
    { [a |-> Mod(1, p)],
      [a |-> Mod(2, p)],
      [a |-> Mod(1, OtherField(p))],
      [a |-> RawInt(1)],
      [a |-> Mod(1, p), Z3 |-> Mod(2, p)] }

(***************************************************************************)
(* Parsed operations (ec/op.py, CodeOp): result = left <operator> right.   *)
(***************************************************************************)
V(name) == [name |-> name, lit |-> 0]
L(k)    == [name |-> "", lit |-> k]
Op(res, operator, l, r) == [result |-> res, operator |-> operator, l |-> l, r |-> r]

IsUnary(operator) == operator \in {"sqr", "id"}

Operands(op) == IF IsUnary(op.operator) THEN {op.l} ELSE {op.l, op.r}

\* {*op.variables, *op.parameters}
OpNames(op) == { o.name : o \in { o \in Operands(op) : o.name # "" } }

\* op(**params): the raw result of evaluating the operation against a binding.
OperandValue(o, env) == IF o.name = "" THEN RawInt(o.lit) ELSE env[o.name]

\* int <operator> int, as Python evaluates it: true division gives a float.
IntArith(operator, l, r) ==
    CASE operator = "add" -> RawInt(l + r)
      [] operator = "sub" -> RawInt(l - r)
      [] operator = "mul" -> RawInt(l * r)
      [] operator = "div" -> Float
      [] operator = "sqr" -> RawInt(l * l)
      [] OTHER            -> RawInt(l)

NameError == [kind |-> "NameError", x |-> 0, n |-> 0]

EvalOp(op, env, p) ==
    IF ~(OpNames(op) \subseteq DOMAIN env) THEN NameError
    ELSE LET l == OperandValue(op.l, env)
             r == IF IsUnary(op.operator) THEN l ELSE OperandValue(op.r, env)
         IN  IF l.kind = "int" /\ r.kind = "int"
             THEN IntArith(op.operator, l.x, r.x)
             ELSE Arith(op.operator, l.x, r.x, p)

(***************************************************************************)
(* Assumptions: lhs == rhs, each side a monomial coef * sym * sym ...      *)
(***************************************************************************)
Side(coef, syms) == [coef |-> coef, syms |-> syms]
Assume(lhs, rhs)  == [lhs |-> lhs, rhs |-> rhs]

\* unparse(assumption)[1:-2].split(" == "): the text of one side.
RECURSIVE UnparseSyms(_)
UnparseSyms(syms) ==
    IF Len(syms) = 1 THEN syms[1]
    ELSE "(" \o UnparseSyms(SubSeq(syms, 1, Len(syms) - 1)) \o " * " \o syms[Len(syms)] \o ")"

Unparse(side) ==
    IF side.syms = <<>> THEN ToString(side.coef)
    ELSE IF side.coef = 1 THEN UnparseSyms(side.syms)
    ELSE UnparseSyms(<<ToString(side.coef)>> \o side.syms)

SideSymbols(side) == { side.syms[i] : i \in DOMAIN side.syms }

RECURSIVE SideProduct(_, _, _)
SideProduct(syms, env, p) ==
    IF syms = <<>> THEN 1
    ELSE (env[Head(syms)].x * SideProduct(Tail(syms), env, p)) % p

SideValue(side, env, p) == (side.coef * SideProduct(side.syms, env, p)) % p


(***************************************************************************)
(* The formulas: one per kind, and the ones that exercise the assumptions. *)
(***************************************************************************)
Formula(name, shortname, nin, nout, parameters, assumptions, code) ==
    [name |-> name, shortname |-> shortname, coordinate_model |-> "xz",
     num_inputs |-> nin, num_outputs |-> nout, parameters |-> parameters,
     assumptions |-> assumptions, code |-> code]

Z1IsOne   == Assume(Side(1, <<"Z1">>), Side(1, <<>>))
HalfOfOne == Assume(Side(2, <<"half">>), Side(1, <<>>))

AdditionFormula ==
    Formula("add-test", "add", 2, 1, {}, <<>>,
            << Op("X3", "mul", V("X1"), V("Z2")),
               Op("t0", "mul", V("X2"), V("Z1")),
               Op("X3", "add", V("X3"), V("t0")),
               Op("Z3", "mul", V("Z1"), V("Z2")) >>)

DoublingFormula ==
    Formula("dbl-half", "dbl", 1, 1, {"half"}, << HalfOfOne >>,
            << Op("t0", "add", V("X1"), V("Z1")),
               Op("X3", "mul", V("t0"), V("half")),
               Op("Z3", "sqr", V("Z1"), V("Z1")) >>)

TriplingFormula ==
    Formula("tpl-z1", "tpl", 1, 1, {}, << Z1IsOne >>,
            << Op("X3", "mul", V("X1"), V("a")),
               Op("Z3", "id", L(1), L(1)) >>)

NegationFormula ==
    Formula("neg-test", "neg", 1, 1, {}, <<>>,
            << Op("X3", "id", V("X1"), V("X1")),
               Op("Z3", "sub", L(0), V("Z1")) >>)

ScalingFormula ==
    Formula("scl-test", "scl", 1, 1, {}, <<>>,
            << Op("X3", "div", V("X1"), V("Z1")),
               Op("Z3", "id", L(1), L(1)) >>)

DifferentialAdditionFormula ==
    Formula("dadd-test", "dadd", 3, 1, {}, <<>>,
            << Op("X4", "mul", V("X2"), V("X3")),
               Op("Z4", "mul", V("Z2"), V("Z3")),
               Op("Z4", "mul", V("Z4"), V("X1")) >>)

LadderFormula ==
    Formula("ladd-test", "ladd", 3, 2, {"half"}, << Z1IsOne, HalfOfOne >>,
            << Op("X4", "sqr", V("X2"), V("X2")),
               Op("Z4", "mul", V("Z2"), V("half")),
               Op("X5", "mul", V("X2"), V("X3")),
               Op("Z5", "mul", V("Z3"), V("a")) >>)

\* assume s^2 = a: a root exists only when a is a square of the field.
SquareRootFormula ==
    Formula("dbl-sqrt", "dbl", 1, 1, {"s"},
            << Assume(Side(1, <<"s", "s">>), Side(1, <<"a">>)) >>,
            << Op("X3", "mul", V("X1"), V("s")),
               Op("Z3", "id", V("Z1"), V("Z1")) >>)

\* assume 1 = Z1: the left-hand side is no bound name and no symbol stays free.
NoFreeSymbolFormula ==
    Formula("neg-nofree", "neg", 1, 1, {},
            << Assume(Side(1, <<>>), Side(1, <<"Z1">>)) >>,
            << Op("X3", "id", V("X1"), V("X1")),
               Op("Z3", "id", V("Z1"), V("Z1")) >>)

\* assume 2*half = t: two symbols stay free.
TwoFreeSymbolsFormula ==
    Formula("scl-twofree", "scl", 1, 1, {"half"},
            << Assume(Side(2, <<"half">>), Side(1, <<"t">>)) >>,
            << Op("X3", "mul", V("X1"), V("half")),
               Op("Z3", "id", V("Z1"), V("Z1")) >>)

\* assume 2*u = 1: u is no declared parameter of the formula.
UndeclaredParameterFormula ==
    Formula("scl-undeclared", "scl", 1, 1, {"half"},
            << Assume(Side(2, <<"u">>), Side(1, <<>>)) >>,
            << Op("X3", "id", V("X1"), V("X1")),
               Op("Z3", "id", V("Z1"), V("Z1")) >>)

\* A malformed formula: it declares the output Z3 and never computes it.
MissingOutputFormula ==
    Formula("dbl-missing", "dbl", 1, 1, {}, <<>>,
            << Op("t0", "add", V("X1"), V("Z1")),
               Op("t1", "sub", V("X1"), V("Z1")),
               Op("X3", "mul", V("t0"), V("t1")) >>)

\* t0 = 1/2 evaluates to a float.
FloatFormula ==
    Formula("tpl-float", "tpl", 1, 1, {}, <<>>,
            << Op("t0", "div", L(1), L(2)),
               Op("X3", "mul", V("X1"), V("t0")),
               Op("Z3", "id", V("Z1"), V("Z1")) >>)

Formulas ==
    { AdditionFormula, DoublingFormula, TriplingFormula, NegationFormula,
      ScalingFormula, DifferentialAdditionFormula, LadderFormula,
      SquareRootFormula, NoFreeSymbolFormula, TwoFreeSymbolsFormula,
      UndeclaredParameterFormula, MissingOutputFormula, FloatFormula }

Max(a, b) == IF a >= b THEN a ELSE b

\* EFDFormula.input_index / output_index / inputs / outputs
InputIndex == 1

OutputIndex(f) == Max(f.num_inputs + 1, 3)

FullName(variable, index) == variable \o ToString(index)

VariableSet == { Variables[i] : i \in DOMAIN Variables }

Inputs(f) ==
    { FullName(v, i) : v \in VariableSet,
                       i \in InputIndex..(InputIndex + f.num_inputs - 1) }

Outputs(f) ==
    { FullName(v, i) : v \in VariableSet,
                       i \in OutputIndex(f)..(OutputIndex(f) + f.num_outputs - 1) }

(***************************************************************************)
(* Formula.__validate_params / __validate_points                           *)
(***************************************************************************)
\* for key, value in params.items(): not isinstance(value, Mod) or value.n != field
ParamsInvalid(kw, p) == \E key \in DOMAIN kw : ~IsFieldElement(kw[key], p)

WrongCount(f, pts) == Len(pts) # f.num_inputs

WrongModel(f, point) == point.coordinate_model # f.coordinate_model

WrongCoordinate(point, p) ==
    \E coord \in DOMAIN point.coords : ~IsFieldElement(point.coords[coord], p)

PointsInvalid(f, pts, p) ==
    \/ WrongCount(f, pts)
    \/ \E i \in DOMAIN pts : WrongModel(f, pts[i]) \/ WrongCoordinate(pts[i], p)

\* params[coord + str(i + 1)] = value, for every point and coordinate
CoordinateNames(pts) ==
    { <<coord, i>> : coord \in UNION { DOMAIN pts[j].coords : j \in DOMAIN pts },
                     i \in DOMAIN pts }

BoundCoordinates(pts) ==
    LET pairs == { c \in CoordinateNames(pts) : c[1] \in DOMAIN pts[c[2]].coords }
    IN  [ name \in { FullName(c[1], c[2]) : c \in pairs } |->
            LET c == CHOOSE c \in pairs : FullName(c[1], c[2]) = name
            IN  pts[c[2]].coords[c[1]] ]

UnrollPoints(pts, env) == BoundCoordinates(pts) @@ env

(***************************************************************************)
(* Formula.__validate_assumptions                                          *)
(***************************************************************************)
\* A slice of the unparsed text that keeps its opening parenthesis.
LhsIsBoundBadSlice(a, env) == ("(" \o Unparse(a.lhs)) \in DOMAIN env

\* lhs in params
LhsIsBound(a, env) == Unparse(a.lhs) \in DOMAIN env

AssumptionSymbols(a) == SideSymbols(a.lhs) \cup SideSymbols(a.rhs)

\* eval(compiled, None, alocals)
AssumptionHolds(a, env, p) == SideValue(a.lhs, env, p) = SideValue(a.rhs, env, p)

\* raise_unsatisified_assumption(action, msg), ec/error.py
Policies == {"error", "warning", "ignore"}

PolicyRaises(pol) == pol = "error"

PolicyWarns(pol) == pol = "warning"

\* expr.free_symbols after expr.subs(curve_param, k(value)) for every bound name
FreeSymbols(a, env) == AssumptionSymbols(a) \ DOMAIN env

\* len(expr.free_symbols) > 1 or param not in self.parameters
Unsupported(f, free) ==
    \/ Cardinality(free) > 1
    \/ \E param \in free : param \notin f.parameters

\* The roots of rhs + lhs: a sign slip in the difference.
GroundRootsOfSum(a, param, env, p) ==
    { r \in 0..(p - 1) :
        LET e == (param :> Mod(r, p)) @@ env
        IN  (SideValue(a.rhs, e, p) + SideValue(a.lhs, e, p)) % p = 0 }

\* Poly(expr, symbols(param), domain=k).ground_roots() for expr = rhs - lhs
GroundRoots(a, param, env, p) ==
    { r \in 0..(p - 1) :
        LET e == (param :> Mod(r, p)) @@ env
        IN  (SideValue(a.rhs, e, p) - SideValue(a.lhs, e, p)) % p = 0 }

\* for root in roots.keys(): ... break -- the first key of the dict of roots. The
\* order of the keys is not specified; it is the same on every call of a build.
RootOrders == {"ascending", "descending"}

FirstRoot(roots, order) ==
    IF order = "ascending"
    THEN CHOOSE r \in roots : \A q \in roots : r <= q
    ELSE CHOOSE r \in roots : \A q \in roots : r >= q

\* int(root) of an element of FF(field): the symmetric representative
RootToInt(r, p) == IF r <= p \div 2 THEN r ELSE r - p

\* params[param] = Mod(int(root), field)
BindRoot(param, r, env, p) == (param :> Mod(RootToInt(r, p), p)) @@ env

(***************************************************************************)
(* FormulaAction and OpResult                                              *)
(***************************************************************************)
Contexts == {"Null", "Active"}

NoAction ==
    [created |-> FALSE, inputs |-> <<>>, input_points |-> <<>>,
     intermediates |-> <<>>, outputs |-> <<>>, output_points |-> <<>>]

\* FormulaAction.__init__
NewAction(pts, env) ==
    [created |-> TRUE, inputs |-> env, input_points |-> pts,
     intermediates |-> <<>>, outputs |-> <<>>, output_points |-> <<>>]

OpResult(name, value, operator, parents) ==
    [name |-> name, value |-> value, op |-> operator, parents |-> parents]

Last(seq) == seq[Len(seq)]

\* The parents of an operation, each as the name and value of the OpResult or
\* input it is; their order (that of a Python set) is left out.
Parents(act, op) ==
    { [name |-> parent,
       value |-> IF parent \in DOMAIN act.intermediates
                 THEN Last(act.intermediates[parent]).value
                 ELSE act.inputs[parent]]
        : parent \in { n \in OpNames(op) :
                         n \in DOMAIN act.intermediates \/ n \in DOMAIN act.inputs } }

\* FormulaAction.add_operation
AddOperation(act, context, op, value) ==
    IF context = "Null" THEN act
    ELSE LET li == IF op.result \in DOMAIN act.intermediates
                   THEN act.intermediates[op.result] ELSE <<>>
             node == OpResult(op.result, value, op.operator, Parents(act, op))
         IN  [act EXCEPT !.intermediates = (op.result :> Append(li, node)) @@ @]

\* add_result raises KeyError on self.intermediates[k] for an unrecorded name
AddResultFails(act, context, names) ==
    context # "Null" /\ \E k \in names : k \notin DOMAIN act.intermediates

\* add_result when it raises: the names ahead of the first unrecorded one, in
\* the order of the coordinate model's variables, are bound by then.
AddResultRaising(act, ordered) ==
    LET missing == { j \in DOMAIN ordered : ordered[j] \notin DOMAIN act.intermediates }
        first == CHOOSE j \in missing : \A q \in missing : j <= q
        bound == { ordered[q] : q \in 1..(first - 1) }
    IN  [act EXCEPT !.outputs = [k \in bound |-> Last(act.intermediates[k])] @@ @]

\* An add_result that binds the first recorded OpResult of a name, [0] for [-1].
AddResultFirst(act, context, point, names) ==
    IF context = "Null" THEN act
    ELSE [act EXCEPT
            !.outputs = [k \in names |-> Head(act.intermediates[k])] @@ @,
            !.output_points = Append(@, point)]

\* FormulaAction.add_result
AddResult(act, context, point, names) ==
    IF context = "Null" THEN act
    ELSE [act EXCEPT
            !.outputs = [k \in names |-> Last(act.intermediates[k])] @@ @,
            !.output_points = Append(@, point)]

(***************************************************************************)
(* Formula.__call__, one action per step.                                  *)
(***************************************************************************)
NoOutcome == [status |-> "none", points |-> <<>>, at |-> ""]

Step(name, k, env, value) == [step |-> name, k |-> k, env |-> env, value |-> value]

\* An exception leaves __call__, or __call__ returns: the call is over.
Finish(status, pts) ==
    /\ outcome' = [status |-> status, points |-> pts, at |-> pc]
    /\ results' = Append(results, outcome')
    /\ ctxs' = Append(ctxs, ctx)
    /\ pc' = "done"

Goto(next) ==
    /\ pc' = next
    /\ UNCHANGED <<outcome, results, ctxs>>

\* A working map that outlives the call and is filled again by the next one.
InitialParamsKept(kw, previous) == kw @@ previous

\* def __call__(self, field, *points, **params): params is a dict of its own
InitialParams(kw, previous) == kw

Call ==
    /\ pc \in {"idle", "done"}
    /\ Len(results) < NumRuns
    /\ \E c \in Contexts : ctx' = c
    /\ params' = InitialParams(kwargs, params)
    /\ pc' = "validate_params"
    /\ ai' = 1 /\ opi' = 0 /\ oi' = 0
    /\ action' = NoAction
    /\ result' = <<>> /\ warned' = <<>> /\ log' = <<>>
    /\ outcome' = NoOutcome
    /\ UNCHANGED <<callVars, results, ctxs, scopeVars>>

ValidateParams ==
    /\ pc = "validate_params"
    /\ log' = Append(log, Step("validate_params", 0, <<>>, NameError))
    /\ IF ParamsInvalid(params, field)
       THEN Finish("InvalidInput", <<>>)
       ELSE Goto("validate_points")
    /\ UNCHANGED <<callVars, ctx, params, ai, opi, oi, action, result, warned, scopeVars>>

ValidatePoints ==
    /\ pc = "validate_points"
    /\ log' = Append(log, Step("validate_points", 0, <<>>, NameError))
    /\ IF PointsInvalid(formula, points, field)
       THEN Finish("InvalidInput", <<>>) /\ UNCHANGED params
       ELSE Goto("validate_assumptions") /\ params' = UnrollPoints(points, params)
    /\ UNCHANGED <<callVars, ctx, ai, opi, oi, action, result, warned, scopeVars>>

ResolveAssumption ==
    /\ pc = "validate_assumptions"
    /\ ai <= Len(formula.assumptions)
    /\ log' = Append(log, Step("assumption", ai, <<>>, NameError))
    /\ LET a == formula.assumptions[ai]
           free == FreeSymbols(a, params)
       IN  IF LhsIsBound(a, params)
           THEN IF free # {}
                THEN Finish("NameError", <<>>) /\ UNCHANGED <<params, ai, warned>>
                ELSE IF AssumptionHolds(a, params, field)
                THEN Goto(pc) /\ ai' = ai + 1 /\ UNCHANGED <<params, warned>>
                ELSE IF PolicyRaises(policy)
                THEN Finish("UnsatisfiedAssumption", <<>>) /\ UNCHANGED <<params, ai, warned>>
                ELSE /\ Goto(pc)
                     /\ ai' = ai + 1
                     /\ warned' = IF PolicyWarns(policy) THEN Append(warned, ai) ELSE warned
                     /\ UNCHANGED params
           ELSE IF Unsupported(formula, free)
                THEN Finish("InvalidInput", <<>>) /\ UNCHANGED <<params, ai, warned>>
                ELSE IF free = {}
                THEN Finish("KeyError", <<>>) /\ UNCHANGED <<params, ai, warned>>
                ELSE LET param == CHOOSE s \in free : TRUE
                         roots == GroundRoots(a, param, params, field)
                     IN  IF roots = {}
                         THEN Finish("UnsatisfiedAssumption", <<>>)
                              /\ UNCHANGED <<params, ai, warned>>
                         ELSE /\ params' = BindRoot(param, FirstRoot(roots, rootOrder),
                                                     params, field)
                              /\ Goto(pc)
                              /\ ai' = ai + 1
                              /\ UNCHANGED warned
    /\ UNCHANGED <<callVars, ctx, opi, oi, action, result, scopeVars>>

\* with FormulaAction(self, *points, **params) as action:
EnterAction ==
    /\ pc = "validate_assumptions"
    /\ ai > Len(formula.assumptions)
    /\ log' = Append(log, Step("enter", 0, <<>>, NameError))
    /\ action' = NewAction(points, params)
    /\ Goto("execute")
    /\ UNCHANGED <<callVars, ctx, params, ai, opi, oi, result, warned, scopeVars>>

\* if not isinstance(op_result, Mod): op_result = Mod(op_result, field)
Coerce(value, p) == IF value.kind = "Mod" THEN value ELSE Mod(value.x, p)

\* A binding that keeps an earlier value of the name (setdefault for assignment).
BindResultKeepFirst(op, value, env) == env @@ (op.result :> value)

\* params[op.result] = op_result
BindResult(op, value, env) == (op.result :> value) @@ env

\* The operation the loop `for op in self.code` evaluates after k iterations.
NextOp(f, k) == f.code[k + 1]

ExecuteOp ==
    /\ pc = "execute"
    /\ opi < Len(formula.code)
    /\ LET op == NextOp(formula, opi)
           raw == EvalOp(op, params, field)
           value == Coerce(raw, field)
       IN  /\ log' = Append(log, Step("op", opi + 1, params, value))
           /\ opi' = opi + 1
           /\ IF raw.kind = "NameError"
              THEN Finish("NameError", <<>>) /\ UNCHANGED <<params, action>>
              ELSE IF raw.kind = "float"
              THEN Finish("InternalDefect", <<>>) /\ UNCHANGED <<params, action>>
              ELSE /\ action' = AddOperation(action, ctx, op, value)
                   /\ params' = BindResult(op, value, params)
                   /\ Goto(pc)
    /\ UNCHANGED <<callVars, ctx, ai, oi, result, warned, scopeVars>>

\* One iteration of `for i in range(self.num_outputs)`.
OutputNames(f, i) == { FullName(v, i + OutputIndex(f)) : v \in VariableSet }

OrderedOutputNames(f, i) ==
    [ j \in DOMAIN Variables |-> FullName(Variables[j], i + OutputIndex(f)) ]

\* An output assembly that reads the input slots.
OutputPointFromInputSlot(f, i, env) ==
    Point(f.coordinate_model,
          [v \in VariableSet |-> env[FullName(v, i + InputIndex)]])

OutputPoint(f, i, env) ==
    Point(f.coordinate_model,
          [v \in VariableSet |-> env[FullName(v, i + OutputIndex(f))]])

AssembleOutput ==
    /\ pc = "execute"
    /\ opi = Len(formula.code)
    /\ oi < formula.num_outputs
    /\ log' = Append(log, Step("output", oi + 1, <<>>, NameError))
    /\ LET names == OutputNames(formula, oi)
       IN  IF ~(names \subseteq DOMAIN params)
           THEN Finish("KeyError", <<>>) /\ UNCHANGED <<oi, action, result>>
           ELSE IF AddResultFails(action, ctx, names)
           THEN /\ Finish("KeyError", <<>>)
                /\ action' = AddResultRaising(action, OrderedOutputNames(formula, oi))
                /\ UNCHANGED <<oi, result>>
           ELSE LET point == OutputPoint(formula, oi, params)
                IN  /\ action' = AddResult(action, ctx, point, names)
                    /\ result' = Append(result, point)
                    /\ oi' = oi + 1
                    /\ Goto(pc)
    /\ UNCHANGED <<callVars, ctx, params, ai, opi, warned, scopeVars>>

\* return action.exit(tuple(result))
Exit ==
    /\ pc = "execute"
    /\ opi = Len(formula.code)
    /\ oi = formula.num_outputs
    /\ log' = Append(log, Step("exit", 0, <<>>, NameError))
    /\ Finish("ok", result)
    /\ UNCHANGED <<callVars, ctx, params, ai, opi, oi, action, result, warned, scopeVars>>

(***************************************************************************)
(* pyecsca/sca/scope/__init__.py, one action per statement.                *)
(***************************************************************************)
Packages == <<"picoscope", "picosdk", "chipwhisperer">>

PackageSet == { Packages[i] : i \in DOMAIN Packages }

At(line, pkg) == [line |-> line, pkg |-> pkg]

Unloaded == [ p \in PackageSet |-> "unset" ]

\* from .base import *
ImportBase ==
    /\ spc = At("base", "")
    /\ exported' = exported \cup {"base"}
    /\ spc' = At("flags", "")
    /\ UNCHANGED <<installed, has, PicoScope, engineVars>>

\* has_picoscope = False; has_picosdk = False; has_chipwhisperer = False
ScopeFlags ==
    /\ spc = At("flags", "")
    /\ has' = [ p \in PackageSet |-> "False" ]
    /\ spc' = At("try", Packages[1])
    /\ UNCHANGED <<installed, PicoScope, exported, engineVars>>

\* except ImportError:
Caught(exception) == exception = "ImportError"

\* try: import <package>
TryImport ==
    /\ spc.line = "try"
    /\ spc' = IF spc.pkg \in installed THEN At("found", spc.pkg)
              ELSE IF Caught("ImportError") THEN At("except", spc.pkg)
              ELSE At("raised", spc.pkg)
    /\ UNCHANGED <<installed, has, PicoScope, exported, engineVars>>

AfterProbe(pkg) ==
    IF \E i \in DOMAIN Packages : Packages[i] = pkg /\ i < Len(Packages)
    THEN At("try", Packages[(CHOOSE i \in DOMAIN Packages : Packages[i] = pkg) + 1])
    ELSE At("annotate", "")

\* has_<package> = True
SetFlag ==
    /\ spc.line = "found"
    /\ has' = [has EXCEPT ![spc.pkg] = "True"]
    /\ spc' = AfterProbe(spc.pkg)
    /\ UNCHANGED <<installed, PicoScope, exported, engineVars>>

\* except ImportError: pass
ExceptPass ==
    /\ spc.line = "except"
    /\ spc' = AfterProbe(spc.pkg)
    /\ UNCHANGED <<installed, has, PicoScope, exported, engineVars>>

\* PicoScope: Type[Scope] -- an annotation binds nothing
Annotate ==
    /\ spc.line = "annotate"
    /\ spc' = At("select", "")
    /\ UNCHANGED <<installed, has, PicoScope, exported, engineVars>>

\* The two branches in the other order: the SDK adapter preferred.
SelectBackendSdkFirst(flags) ==
    IF flags["picosdk"] = "True" THEN "picoscope_sdk"
    ELSE IF flags["picoscope"] = "True" THEN "picoscope_alt"
    ELSE ""

\* if has_picoscope: ... elif has_picosdk: ...
SelectBackend(flags) ==
    IF flags["picoscope"] = "True" THEN "picoscope_alt"
    ELSE IF flags["picosdk"] = "True" THEN "picoscope_sdk"
    ELSE ""

Select ==
    /\ spc.line = "select"
    /\ spc' = IF SelectBackend(has) = "" THEN At("expose", "")
              ELSE At("import", SelectBackend(has))
    /\ UNCHANGED <<installed, has, PicoScope, exported, engineVars>>

\* from .picoscope_alt import *  /  from .picoscope_sdk import *
ImportAdapter ==
    /\ spc.line = "import"
    /\ exported' = exported \cup {spc.pkg}
    /\ spc' = At("assign", spc.pkg)
    /\ UNCHANGED <<installed, has, PicoScope, engineVars>>

Adapter(module) == IF module = "picoscope_alt" THEN "PicoScopeAlt" ELSE "PicoScopeSdk"

\* PicoScope = PicoScopeAlt  /  PicoScope = PicoScopeSdk
Assign ==
    /\ spc.line = "assign"
    /\ PicoScope' = Adapter(spc.pkg)
    /\ spc' = At("expose", "")
    /\ UNCHANGED <<installed, has, exported, engineVars>>

\* if has_chipwhisperer: from .chipwhisperer import *
Expose ==
    /\ spc.line = "expose"
    /\ exported' = IF has["chipwhisperer"] = "True"
                   THEN exported \cup {"chipwhisperer"} ELSE exported
    /\ spc' = At("loaded", "")
    /\ UNCHANGED <<installed, has, PicoScope, engineVars>>

(***************************************************************************)
(* The specifications.                                                     *)
(***************************************************************************)
ScopeIdle ==
    /\ spc = At("base", "")
    /\ installed = {}
    /\ has = Unloaded
    /\ PicoScope = "unbound"
    /\ exported = {}

CallIdle ==
    /\ ctx = "Null"
    /\ pc = "idle"
    /\ params = <<>>
    /\ ai = 1 /\ opi = 0 /\ oi = 0
    /\ action = NoAction
    /\ result = <<>> /\ warned = <<>> /\ log = <<>>
    /\ outcome = NoOutcome
    /\ results = <<>> /\ ctxs = <<>>

Init ==
    /\ formula \in Formulas
    /\ field \in Fields
    /\ points \in PointLists(field, formula.num_inputs)
    /\ kwargs \in KwargsChoices(field)
    /\ policy \in Policies
    /\ rootOrder \in RootOrders
    /\ CallIdle
    /\ ScopeIdle

Next ==
    \/ Call
    \/ ValidateParams
    \/ ValidatePoints
    \/ ResolveAssumption
    \/ EnterAction
    \/ ExecuteOp
    \/ AssembleOutput
    \/ Exit

Spec == Init /\ [][Next]_vars

ScopeInit ==
    /\ formula = NegationFormula
    /\ field = 3
    /\ points = <<>>
    /\ kwargs = <<>>
    /\ policy = "error"
    /\ rootOrder = "ascending"
    /\ CallIdle
    /\ spc = At("base", "")
    /\ installed \in SUBSET PackageSet
    /\ has = Unloaded
    /\ PicoScope = "unbound"
    /\ exported = {}

ScopeNext ==
    \/ ImportBase
    \/ ScopeFlags
    \/ TryImport
    \/ SetFlag
    \/ ExceptPass
    \/ Annotate
    \/ Select
    \/ ImportAdapter
    \/ Assign
    \/ Expose

ScopeSpec == ScopeInit /\ [][ScopeNext]_vars

(***************************************************************************)
(* The claims.                                                             *)
(***************************************************************************)
Finished == pc = "done"

Succeeded == Finished /\ outcome.status = "ok"

OpSteps == { i \in DOMAIN log : log[i].step = "op" }

\* The value the last evaluated operation assigning `name` gave it.
LastAssignment(name) ==
    LET at == { i \in OpSteps : formula.code[log[i].k].result = name }
    IN  log[CHOOSE i \in at : \A j \in at : j <= i].value

Assigned(name) == \E i \in OpSteps : formula.code[log[i].k].result = name

ClaimedOutputIndex == IF formula.num_inputs = 3 THEN 4 ELSE 3

\* C1: a successful Execute returns exactly num_outputs points of the formula's
\* coordinate model; output point i takes coordinate v from the value bound to
\* v<output_index + i> after the last operation (the value the last operation
\* assigning that name computed, when one did); output_index is 3 for 1- and
\* 2-input kinds and 4 for 3-input kinds, so no output slot is an input slot.
C1_OutputPoints ==
    /\ OutputIndex(formula) = ClaimedOutputIndex
    /\ \A i \in 0..(formula.num_outputs - 1) :
            ClaimedOutputIndex + i \notin 1..formula.num_inputs
    /\ Outputs(formula) \cap Inputs(formula) = {}
    /\ Succeeded =>
        /\ Len(outcome.points) = formula.num_outputs
        /\ \A i \in 0..(formula.num_outputs - 1) :
            LET point == outcome.points[i + 1]
            IN  /\ point.coordinate_model = formula.coordinate_model
                /\ DOMAIN point.coords = VariableSet
                /\ \A v \in VariableSet :
                    LET slot == v \o ToString(ClaimedOutputIndex + i)
                    IN  /\ slot \in DOMAIN params
                        /\ point.coords[v] = params[slot]
                        /\ Assigned(slot) => point.coords[v] = LastAssignment(slot)

C1_Witness ==
    /\ Succeeded
    /\ formula = LadderFormula
    /\ Len(outcome.points) = 2
    /\ outcome.points[1] # outcome.points[2]

SomePointOfOtherModel == \E i \in DOMAIN points : points[i].coordinate_model # "xz"

SomeBadParameter ==
    \E key \in DOMAIN kwargs : kwargs[key].kind # "Mod" \/ kwargs[key].n # field

SomeBadCoordinate ==
    \E i \in DOMAIN points : \E c \in DOMAIN points[i].coords :
        points[i].coords[c].kind # "Mod" \/ points[i].coords[c].n # field

NoOperationEvaluated == opi = 0 /\ OpSteps = {} /\ ~action.created

\* C2: Execute fails with InvalidInput, evaluating no operation and returning no
\* point, whenever the number of points differs from the input arity, or a
\* point has another coordinate model, or a curve parameter or a coordinate is
\* not a field element of the given field.
C2_InvalidInput ==
    (Finished /\ (\/ Len(points) # formula.num_inputs
                  \/ SomePointOfOtherModel
                  \/ SomeBadParameter
                  \/ SomeBadCoordinate))
        => /\ outcome.status = "InvalidInput"
           /\ outcome.points = <<>>
           /\ result = <<>>
           /\ NoOperationEvaluated

C2_Witness ==
    /\ Finished
    /\ outcome.status = "InvalidInput"
    /\ Len(points) = formula.num_inputs
    /\ ~SomePointOfOtherModel /\ ~SomeBadCoordinate
    /\ kwargs["a"].kind = "Mod" /\ kwargs["a"].n # field

\* C3: for every formula and input, a run with the null context and a run with
\* an active context end the same way: the same output points, or the same
\* error.
C3_TracingDoesNotChangeOutcome ==
    \A i, j \in DOMAIN results :
        ctxs[i] # ctxs[j] =>
            /\ results[i].status = results[j].status
            /\ results[i].points = results[j].points

ValidCall ==
    /\ Len(points) = formula.num_inputs
    /\ ~SomePointOfOtherModel
    /\ ~SomeBadParameter
    /\ ~SomeBadCoordinate

AllOperationsRan ==
    /\ opi = Len(formula.code)
    /\ Cardinality(OpSteps) = Len(formula.code)
    /\ Len(outcome.points) = formula.num_outputs

\* C4: for a formula whose first assumption is Z1 == 1, the assumption is
\* satisfied exactly when the Z coordinate of the first input point is 1 in the
\* field; otherwise the policy applies: under "error" Execute raises
\* UnsatisfiedAssumption before any operation, under "warning" (a warning is
\* issued) and "ignore" Execute runs the whole code and returns its points.
C4_InputCoordinateAssumption ==
    (Finished /\ ValidCall /\ formula.assumptions # <<>>
              /\ formula.assumptions[1] = Z1IsOne
              /\ formula \in {TriplingFormula, LadderFormula})
        => LET satisfied == points[1].coords["Z"].x = 1 % field
           IN  /\ satisfied =>
                    outcome.status = "ok" /\ warned = <<>> /\ AllOperationsRan
               /\ (~satisfied /\ policy = "error") =>
                    /\ outcome.status = "UnsatisfiedAssumption"
                    /\ outcome.points = <<>>
                    /\ NoOperationEvaluated
               /\ (~satisfied /\ policy = "warning") =>
                    outcome.status = "ok" /\ warned = <<1>> /\ AllOperationsRan
               /\ (~satisfied /\ policy = "ignore") =>
                    outcome.status = "ok" /\ warned = <<>> /\ AllOperationsRan

C4_Witness ==
    /\ Finished /\ ValidCall
    /\ formula = TriplingFormula
    /\ points[1].coords["Z"].x = 2
    /\ policy = "warning"
    /\ outcome.status = "ok"
    /\ warned = <<1>>

HalfFormulas == {DoublingFormula, LadderFormula}

IsHalf(value) ==
    /\ value.kind = "Mod"
    /\ value.n = field
    /\ value.x \in 0..(field - 1)
    /\ (2 * value.x) % field = 1

\* C5: for a formula with the parameter half and the assumption 2*half == 1,
\* half is bound to the inverse of 2 modulo the (odd prime) field before the
\* first operation is evaluated, and every run of the same call ends with the
\* same output points.
C5_HalfIsInverseOfTwo ==
    formula \in HalfFormulas =>
        /\ pc = "execute" => "half" \in DOMAIN params /\ IsHalf(params["half"])
        /\ \A i \in OpSteps :
                "half" \in DOMAIN log[i].env /\ IsHalf(log[i].env["half"])
        /\ \A i, j \in DOMAIN results :
                /\ results[i].status = results[j].status
                /\ results[i].points = results[j].points

C5_Witness ==
    /\ formula = DoublingFormula
    /\ field = 5
    /\ Len(results) = 2
    /\ results[1].status = "ok"
    /\ results[2].points = results[1].points
    /\ params["half"] = Mod(3, 5)

\* C6: when the left-hand side of an assumption is no bound name and, after the
\* substitution of the bound values, the number of free symbols is not exactly
\* one or the one free symbol is no declared parameter, Execute fails with
\* InvalidInput and evaluates no operation.
C6_UnsupportedAssumption ==
    (Finished /\ outcome.at = "validate_assumptions"
              /\ Unparse(formula.assumptions[ai].lhs) \notin DOMAIN params
              /\ LET free == AssumptionSymbols(formula.assumptions[ai]) \ DOMAIN params
                 IN  Cardinality(free) # 1 \/ ~(free \subseteq formula.parameters))
        => outcome.status = "InvalidInput" /\ NoOperationEvaluated

HasSquareRoot(value) == \E r \in 0..(field - 1) : (r * r) % field = value.x % field

\* C7: a parameter-defining assumption without a root over the field makes
\* Execute fail with UnsatisfiedAssumption under every policy, no operation
\* being evaluated; with a root, the parameter is bound to one of the roots and
\* the assumption raises nothing. (s*s == a and 2*half == 1.)
C7_ParameterDefiningAssumption ==
    /\ (Finished /\ ValidCall /\ formula = SquareRootFormula) =>
         IF HasSquareRoot(kwargs["a"])
         THEN /\ outcome.status = "ok"
              /\ params["s"].kind = "Mod" /\ params["s"].n = field
              /\ params["s"].x \in 0..(field - 1)
              /\ (params["s"].x * params["s"].x) % field = kwargs["a"].x
         ELSE /\ outcome.status = "UnsatisfiedAssumption"
              /\ outcome.at = "validate_assumptions"
              /\ outcome.points = <<>>
              /\ NoOperationEvaluated
    /\ (Finished /\ ValidCall /\ formula = DoublingFormula) =>
         outcome.status = "ok" /\ IsHalf(params["half"])
    /\ (Finished /\ outcome.status = "UnsatisfiedAssumption"
                 /\ Unparse(formula.assumptions[ai].lhs) \notin DOMAIN params) =>
         /\ formula = SquareRootFormula
         /\ ~HasSquareRoot(kwargs["a"])

C7_Witness ==
    /\ Finished /\ ValidCall
    /\ formula = SquareRootFormula
    /\ policy = "ignore"
    /\ ~HasSquareRoot(kwargs["a"])
    /\ outcome.status = "UnsatisfiedAssumption"

C7_WitnessRoot ==
    /\ Finished /\ ValidCall
    /\ formula = SquareRootFormula
    /\ outcome.status = "ok"
    /\ params["s"] = Mod(field - 1, field)

RecordedOutputs ==
    /\ Len(action.output_points) = formula.num_outputs
    /\ action.output_points = outcome.points
    /\ DOMAIN action.outputs = Outputs(formula)
    /\ \A name \in Outputs(formula) :
        /\ name \in DOMAIN action.intermediates
        /\ action.outputs[name] = Last(action.intermediates[name])
        /\ action.outputs[name].name = name
        /\ action.outputs[name].value = LastAssignment(name)

OutputNeverComputed ==
    /\ Finished
    /\ outcome.at = "execute"
    /\ opi = Len(formula.code)
    /\ \E name \in Outputs(formula) : name \notin DOMAIN action.intermediates

\* C8 as claimed: the FormulaAction of every completed invocation holds
\* num_outputs output points and binds every declared output name to the most
\* recently recorded OpResult of that name; add_result fails when an output
\* name has no recorded OpResult.
C8_RecordedOutputsInEveryContext ==
    /\ Succeeded => RecordedOutputs
    /\ OutputNeverComputed => outcome.status = "KeyError"

\* C8 as amended: the same under an active tracing context; under the null
\* context add_result records nothing and never fails, so the action's output
\* points and outputs map stay empty.
C8_RecordedOutputsWhenTracing ==
    /\ (Succeeded /\ ctx = "Active") => RecordedOutputs
    /\ (OutputNeverComputed /\ ctx = "Active") => outcome.status = "KeyError"
    /\ ctx = "Null" =>
        /\ action.output_points = <<>>
        /\ DOMAIN action.outputs = {}
        /\ DOMAIN action.intermediates = {}

C8_Witness ==
    /\ Succeeded
    /\ ctx = "Active"
    /\ formula = AdditionFormula
    /\ Len(action.intermediates["X3"]) = 2
    /\ action.outputs["X3"] = action.intermediates["X3"][2]
    /\ action.intermediates["X3"][1].value # action.intermediates["X3"][2].value

\* C9: for every set of importable optional packages the initialization of the
\* scope module raises nothing and runs to its end, and then PicoScope is bound
\* to the general vendor package's adapter when that package is importable, to
\* the SDK adapter when only the SDK of the two is, and is unbound otherwise,
\* whether or not the capture-oriented package is importable.
C9_BackendSelection ==
    /\ spc.line # "raised"
    /\ spc.line # "loaded" => ENABLED ScopeNext
    /\ spc.line = "loaded" =>
        /\ PicoScope = IF "picoscope" \in installed THEN "PicoScopeAlt"
                       ELSE IF "picosdk" \in installed THEN "PicoScopeSdk"
                       ELSE "unbound"
        /\ "chipwhisperer" \in exported <=> "chipwhisperer" \in installed
    /\ spc.line # "loaded" /\ spc.line # "expose" => PicoScope = "unbound"

C9_Witness ==
    /\ spc.line = "loaded"
    /\ installed = {"picoscope", "picosdk"}
    /\ PicoScope = "PicoScopeAlt"

StepOrder(f) ==
    << <<"validate_params", 0>>, <<"validate_points", 0>> >>
    \o [i \in 1..Len(f.assumptions) |-> <<"assumption", i>>]
    \o << <<"enter", 0>> >>
    \o [i \in 1..Len(f.code) |-> <<"op", i>>]
    \o [i \in 1..f.num_outputs |-> <<"output", i>>]
    \o << <<"exit", 0>> >>

\* The value operation step i found bound to `name`, as the claim says it is:
\* the result of the latest earlier operation assigning it, else the binding
\* made by the validation steps.
EarlierAssignments(i, name) ==
    { j \in OpSteps : j < i /\ formula.code[log[j].k].result = name }

\* C10: the steps of every Execute run in the order: parameter validation,
\* point validation, every assumption, then the operations in declared order;
\* operation k sees the results of the operations 0..k-1 (a later assignment
\* replacing an earlier one) and none of operation k or later; no operation is
\* evaluated when an earlier step failed.
C10_StepOrder ==
    /\ Len(log) <= Len(StepOrder(formula))
    /\ \A i \in DOMAIN log : <<log[i].step, log[i].k>> = StepOrder(formula)[i]
    /\ \A i \in OpSteps :
        /\ action.created
        /\ DOMAIN log[i].env =
              DOMAIN action.inputs
              \cup { formula.code[log[j].k].result : j \in { j \in OpSteps : j < i } }
        /\ \A name \in DOMAIN log[i].env :
              LET earlier == EarlierAssignments(i, name)
              IN  IF earlier = {}
                  THEN log[i].env[name] = action.inputs[name]
                  ELSE log[i].env[name] =
                         log[CHOOSE j \in earlier : \A q \in earlier : q <= j].value
    /\ (Finished /\ outcome.at # "execute") => NoOperationEvaluated

C10_Witness ==
    /\ Succeeded
    /\ formula = AdditionFormula
    /\ Len(log) = Len(StepOrder(formula))
    /\ \E i, j \in OpSteps :
        /\ i < j
        /\ log[i].k = 3 /\ log[j].k = 4
        /\ log[j].env["X3"] = log[i].value
        /\ log[i].env["X3"] # log[i].value

====
